---- MODULE Spec2Model ----
(***************************************************************************)
(* Model of the LLPC utility functions (llpc/util/llpcUtil.cpp) and of the *)
(* SPIR-V lowering pass registration / pass pipeline declared in           *)
(* llpc/lower/llpcSpirvLower.h.                                            *)
(*                                                                         *)
(* Unsigned 32-bit values are carried as their 32-bit pattern in a signed  *)
(* integer: ~0u is -1.  ULess is the unsigned comparison on that pattern.  *)
(***************************************************************************)
EXTENDS Integers, Sequences, FiniteSets, TLC

\* ------------------------------------------------------------------------
\* Enumerations (Vkgc::ShaderStage, Vkgc::UnlinkedShaderStage,
\* spv::ExecutionModel).
ShaderStageVertex == 0
ShaderStageTessControl == 1
ShaderStageTessEval == 2
ShaderStageGeometry == 3
ShaderStageFragment == 4
ShaderStageCompute == 5
ShaderStageCount == 6
ShaderStageCopyShader == 6
ShaderStageInvalid == -1

ExecutionModelVertex == 0
ExecutionModelTessellationControl == 1
ExecutionModelTessellationEvaluation == 2
ExecutionModelGeometry == 3
ExecutionModelFragment == 4
ExecutionModelGLCompute == 5
ExecutionModelCopyShader == 1024

UnlinkedStageVertexProcess == 0
UnlinkedStageFragment == 1
UnlinkedStageCompute == 2
UnlinkedStageCount == 3

\* ------------------------------------------------------------------------
\* Bounds of the model.
MaxStage == 7
MaxExecModel == 7
MaxInfos == 2
MaxType == 4

\* Input values the operations are driven with.
StageInputs == (0 .. MaxStage) \cup {ShaderStageInvalid}
ExecModelInputs == (0 .. MaxExecModel) \cup {ExecutionModelCopyShader}
TypeInputs == 0 .. MaxType
ShaderInfoInputs == UNION {[1 .. n -> StageInputs] : n \in 0 .. MaxInfos}

\* Outcome of a call: a returned value, or the statement that ended it.
NoValue == "none"
Return(v) == [kind |-> "return", value |-> v]
Unreachable == [kind |-> "llvm_unreachable"]
AssertFail == [kind |-> "assert"]
OutOfBounds == [kind |-> "out_of_bounds"]
Returns(outcome) == outcome.kind = "return"

\* ------------------------------------------------------------------------
\* Arithmetic of the C++ operators on unsigned values.

\* a < b on unsigned 32-bit patterns.
ULess(a, b) == IF (a < 0) = (b < 0) THEN a < b ELSE b < 0

RECURSIVE BitOr(_, _)
BitOr(a, b) ==
  IF a = 0 THEN b
  ELSE IF b = 0 THEN a
  ELSE (IF a % 2 = 1 \/ b % 2 = 1 THEN 1 ELSE 0) + 2 * BitOr(a \div 2, b \div 2)

RECURSIVE BitAnd(_, _)
BitAnd(a, b) ==
  IF a = 0 \/ b = 0 THEN 0
  ELSE (IF a % 2 = 1 /\ b % 2 = 1 THEN 1 ELSE 0) + 2 * BitAnd(a \div 2, b \div 2)

\* 1 << n in a 32-bit int, n in 0..31: bit 31 is the sign bit of the pattern.
MinInt32 == -2147483647 - 1
ShiftLeft1(n) == IF n = 31 THEN MinInt32 ELSE 2 ^ n

\* ------------------------------------------------------------------------
\* getShaderStageName

ShaderStageNames ==
  << "vertex", "tessellation control", "tessellation evaluation",
     "geometry", "fragment", "compute" >>

\* The set of (0-based) indices with which getShaderStageName reads
\* ShaderStageNames: empty when the table is not read.
getShaderStageNameIndex(shaderStage) ==
  IF shaderStage = ShaderStageCopyShader THEN {}
  ELSE IF ULess(shaderStage, ShaderStageCount) THEN {shaderStage}
  ELSE {}

getShaderStageName_copyFallsThrough(shaderStage) ==
  IF ULess(shaderStage, ShaderStageCount) THEN ShaderStageNames[shaderStage + 1]
  ELSE "bad"

getShaderStageName(shaderStage) ==
  IF shaderStage = ShaderStageCopyShader THEN "copy"
  ELSE IF ULess(shaderStage, ShaderStageCount)
       THEN ShaderStageNames[shaderStage + 1]
  ELSE "bad"

\* ------------------------------------------------------------------------
\* convertToShaderStage / convertToExecModel

convertToShaderStage_copyAsCast(execModel) ==
  IF execModel \in {ExecutionModelVertex, ExecutionModelTessellationControl,
                    ExecutionModelTessellationEvaluation, ExecutionModelGeometry,
                    ExecutionModelFragment, ExecutionModelGLCompute}
  THEN Return(execModel)
  ELSE IF execModel = ExecutionModelCopyShader THEN Return(ShaderStageCompute)
  ELSE Unreachable

convertToShaderStage_returnsInvalid(execModel) ==
  IF execModel \in {ExecutionModelVertex, ExecutionModelTessellationControl,
                    ExecutionModelTessellationEvaluation, ExecutionModelGeometry,
                    ExecutionModelFragment, ExecutionModelGLCompute}
  THEN Return(execModel)
  ELSE IF execModel = ExecutionModelCopyShader THEN Return(ShaderStageCopyShader)
  ELSE Return(ShaderStageInvalid)

\* The returned stage, or Unreachable when control reaches llvm_unreachable.
convertToShaderStage(execModel) ==
  IF execModel \in {ExecutionModelVertex, ExecutionModelTessellationControl,
                    ExecutionModelTessellationEvaluation, ExecutionModelGeometry,
                    ExecutionModelFragment, ExecutionModelGLCompute}
  THEN Return(execModel)
  ELSE IF execModel = ExecutionModelCopyShader THEN Return(ShaderStageCopyShader)
  ELSE Unreachable

\* The returned execution model, or Unreachable in the default case.
convertToExecModel(shaderStage) ==
  IF shaderStage \in {ShaderStageVertex, ShaderStageTessControl, ShaderStageTessEval,
                      ShaderStageGeometry, ShaderStageFragment, ShaderStageCompute}
  THEN Return(shaderStage)
  ELSE IF shaderStage = ShaderStageCopyShader THEN Return(ExecutionModelCopyShader)
  ELSE Unreachable

\* ------------------------------------------------------------------------
\* shaderStageToMask

shaderStageToMask_ordinalAsMask(stage) ==
  IF ULess(stage, ShaderStageCount) \/ stage = ShaderStageCopyShader
  THEN Return(stage + 1)
  ELSE AssertFail

\* What 1 << stage gives when the assertion is compiled out.  A count of 32
\* or more is undefined: the shift instruction uses the count modulo 32, a
\* shift folded at compile time gives 0.
shaderStageToMaskNoAssert(stage) ==
  IF ULess(stage, 32) THEN {ShiftLeft1(stage)} ELSE {ShiftLeft1(stage % 32), 0}

\* The returned mask, or AssertFail when the assertion does not hold.
shaderStageToMask(stage) ==
  IF ULess(stage, ShaderStageCount) \/ stage = ShaderStageCopyShader
  THEN Return(ShiftLeft1(stage))
  ELSE AssertFail

\* ------------------------------------------------------------------------
\* hasDataForUnlinkedShaderType

\* True when an element of shaderInfo declares the stage.
doesShaderStageExist(shaderInfo, stage) ==
  \E i \in 1 .. Len(shaderInfo) : shaderInfo[i] = stage

hasDataForUnlinkedShaderType_anyVertexProcessStage(type, shaderInfo) ==
  IF type = UnlinkedStageVertexProcess
  THEN \/ doesShaderStageExist(shaderInfo, ShaderStageVertex)
       \/ doesShaderStageExist(shaderInfo, ShaderStageTessControl)
       \/ doesShaderStageExist(shaderInfo, ShaderStageTessEval)
       \/ doesShaderStageExist(shaderInfo, ShaderStageGeometry)
  ELSE IF type = UnlinkedStageFragment
       THEN doesShaderStageExist(shaderInfo, ShaderStageFragment)
  ELSE IF type = UnlinkedStageCompute
       THEN doesShaderStageExist(shaderInfo, ShaderStageCompute)
  ELSE FALSE

hasDataForUnlinkedShaderType(type, shaderInfo) ==
  IF type = UnlinkedStageVertexProcess
  THEN doesShaderStageExist(shaderInfo, ShaderStageVertex)
  ELSE IF type = UnlinkedStageFragment
       THEN doesShaderStageExist(shaderInfo, ShaderStageFragment)
  ELSE IF type = UnlinkedStageCompute
       THEN doesShaderStageExist(shaderInfo, ShaderStageCompute)
  ELSE FALSE

\* ------------------------------------------------------------------------
\* getShaderStageMaskForType

getShaderStageMaskForType_noTessEval(type) ==
  IF type = UnlinkedStageVertexProcess
  THEN BitOr(BitOr(shaderStageToMask(ShaderStageVertex).value,
                   shaderStageToMask(ShaderStageGeometry).value),
             shaderStageToMask(ShaderStageTessControl).value)
  ELSE IF type = UnlinkedStageFragment THEN shaderStageToMask(ShaderStageFragment).value
  ELSE IF type = UnlinkedStageCompute THEN shaderStageToMask(ShaderStageCompute).value
  ELSE 0

getShaderStageMaskForType_fragmentInVertexProcess(type) ==
  IF type = UnlinkedStageVertexProcess
  THEN BitOr(BitOr(BitOr(BitOr(shaderStageToMask(ShaderStageVertex).value,
                               shaderStageToMask(ShaderStageGeometry).value),
                         shaderStageToMask(ShaderStageTessControl).value),
                   shaderStageToMask(ShaderStageTessEval).value),
             shaderStageToMask(ShaderStageFragment).value)
  ELSE IF type = UnlinkedStageFragment THEN shaderStageToMask(ShaderStageFragment).value
  ELSE IF type = UnlinkedStageCompute THEN shaderStageToMask(ShaderStageCompute).value
  ELSE 0

getShaderStageMaskForType(type) ==
  IF type = UnlinkedStageVertexProcess
  THEN BitOr(BitOr(BitOr(shaderStageToMask(ShaderStageVertex).value,
                         shaderStageToMask(ShaderStageGeometry).value),
                   shaderStageToMask(ShaderStageTessControl).value),
             shaderStageToMask(ShaderStageTessEval).value)
  ELSE IF type = UnlinkedStageFragment THEN shaderStageToMask(ShaderStageFragment).value
  ELSE IF type = UnlinkedStageCompute THEN shaderStageToMask(ShaderStageCompute).value
  ELSE 0

\* ------------------------------------------------------------------------
\* getUnlinkedShaderStageName

names == << "vertex", "fragment", "compute", "unknown" >>

\* The set of (0-based) indices with which getUnlinkedShaderStageName reads
\* names.
getUnlinkedShaderStageNameIndex(type) == {type}

\* What a read past the end of names can return: the bytes that lie in
\* memory after the table, taken as a pointer.  Any pointer value can come
\* out; the values are kept by what the pointer is:
\*   NullPointer   the null pointer;
\*   WildPointer   any non-null pointer that does not point to a string
\*                 (0x1, 0x119, an address of non-text bytes, ...);
\*   OtherString   a pointer to any string that is in neither table
\*                 (the empty string, a file name, ...);
\*   or a pointer to a string of the neighbouring ShaderStageNames table or
\*   of names itself.
NullPointer == "<null pointer>"
WildPointer == "<wild pointer>"
OtherString == "<other string>"
namesPastTheEnd ==
  {NullPointer, WildPointer, OtherString}
    \cup {ShaderStageNames[i] : i \in 1 .. Len(ShaderStageNames)}
    \cup {names[i] : i \in 1 .. Len(names)}

\* The returned name; a read past the end of the table is undefined behaviour.
getUnlinkedShaderStageName(type) ==
  IF type \in 0 .. Len(names) - 1 THEN Return(names[type + 1]) ELSE OutOfBounds

\* ------------------------------------------------------------------------
\* State of the utility calls: the last call made, its arguments and what it
\* did.
VARIABLES
  call,        \* name of the function last called
  stage,       \* its ShaderStage argument
  execModel,   \* its execution-model argument
  type,        \* its UnlinkedShaderStage argument
  shaderInfo,  \* its shaderInfo argument: the stage each element declares
  ret,         \* the value returned
  returned,    \* FALSE when the call ended the process instead of returning
  fault,       \* the llvm_unreachable / assert the call ran into, if any
  tableReads,  \* indices with which the call read its name table
  from         \* the argument (if any) of the conversion whose result this call converts back

utilVars ==
  << call, stage, execModel, type, shaderInfo, ret, returned, fault, tableReads, from >>

\* The arguments of a call; the ones it does not take are NoValue.
Args(s, x, t, infos, f, reads) ==
  /\ stage' = s
  /\ execModel' = x
  /\ type' = t
  /\ shaderInfo' = infos
  /\ from' = f
  /\ tableReads' = reads

UtilInit ==
  /\ call = NoValue
  /\ stage = NoValue
  /\ execModel = NoValue
  /\ type = NoValue
  /\ shaderInfo = << >>
  /\ ret = NoValue
  /\ returned = FALSE
  /\ fault = NoValue
  /\ tableReads = {}
  /\ from = {}

\* What a call that ran into llvm_unreachable or a failed assert can do: end
\* the process (assertions on), or carry on with a value from ubValues
\* (assertions off, undefined behaviour).
Finish(outcome, ubValues) ==
  IF Returns(outcome)
  THEN /\ ret' = outcome.value
       /\ returned' = TRUE
       /\ fault' = NoValue
  ELSE /\ fault' = outcome.kind
       /\ \/ /\ returned' = FALSE
             /\ ret' = NoValue
          \/ /\ returned' = TRUE
             /\ ret' \in ubValues

GetShaderStageName(s) ==
  /\ call' = "getShaderStageName"
  /\ Args(s, NoValue, NoValue, << >>, {}, getShaderStageNameIndex(s))
  /\ Finish(Return(getShaderStageName(s)), {})

ConvertToShaderStage(x) ==
  /\ call' = "convertToShaderStage"
  /\ Args(NoValue, x, NoValue, << >>, {}, {})
  /\ Finish(convertToShaderStage(x), StageInputs)

ConvertToExecModel(s) ==
  /\ call' = "convertToExecModel"
  /\ Args(s, NoValue, NoValue, << >>, {}, {})
  /\ Finish(convertToExecModel(s), ExecModelInputs)

\* convertToExecModel(convertToShaderStage(x)): the stage just returned is
\* converted back.
ConvertBackToExecModel ==
  /\ call = "convertToShaderStage"
  /\ returned
  /\ call' = "convertToExecModel"
  /\ Args(ret, NoValue, NoValue, << >>, {execModel}, {})
  /\ Finish(convertToExecModel(ret), ExecModelInputs)

\* convertToShaderStage(convertToExecModel(s)): the execution model just
\* returned is converted back.
ConvertBackToShaderStage ==
  /\ call = "convertToExecModel"
  /\ returned
  /\ call' = "convertToShaderStage"
  /\ Args(NoValue, ret, NoValue, << >>, {stage}, {})
  /\ Finish(convertToShaderStage(ret), StageInputs)

ShaderStageToMask(s) ==
  /\ call' = "shaderStageToMask"
  /\ Args(s, NoValue, NoValue, << >>, {}, {})
  /\ Finish(shaderStageToMask(s), shaderStageToMaskNoAssert(s))

HasDataForUnlinkedShaderType(t, infos) ==
  /\ call' = "hasDataForUnlinkedShaderType"
  /\ Args(NoValue, NoValue, t, infos, {}, {})
  /\ Finish(Return(hasDataForUnlinkedShaderType(t, infos)), {})

GetShaderStageMaskForType(t) ==
  /\ call' = "getShaderStageMaskForType"
  /\ Args(NoValue, NoValue, t, << >>, {}, {})
  /\ Finish(Return(getShaderStageMaskForType(t)), {})

GetUnlinkedShaderStageName(t) ==
  /\ call' = "getUnlinkedShaderStageName"
  /\ Args(NoValue, NoValue, t, << >>, {}, getUnlinkedShaderStageNameIndex(t))
  /\ Finish(getUnlinkedShaderStageName(t), namesPastTheEnd)

\* ------------------------------------------------------------------------
\* Lowering pass pipeline: LegacySpirvLower::addPasses hands an ordered pass
\* list to the pass manager, which runs it.

MaxPasses == 3

\* The lowering passes, in the order initializeLowerPasses registers them.
initializeLowerPasses_registersTwice ==
  << "SpirvLowerAccessChain", "SpirvLowerConstImmediateStore",
     "SpirvLowerMathConstFolding", "SpirvLowerMathFloatOp", "SpirvLowerMemoryOp",
     "SpirvLowerGlobal", "SpirvLowerInstMetaRemove", "SpirvLowerResourceCollect",
     "SpirvLowerTerminator", "SpirvLowerTerminator" >>

initializeLowerPasses ==
  << "SpirvLowerAccessChain", "SpirvLowerConstImmediateStore",
     "SpirvLowerMathConstFolding", "SpirvLowerMathFloatOp", "SpirvLowerMemoryOp",
     "SpirvLowerGlobal", "SpirvLowerInstMetaRemove", "SpirvLowerResourceCollect",
     "SpirvLowerTerminator", "LegacySpirvLowerTranslator" >>

\* The passes the create* functions make, which addPasses can put in a list.
LowerPasses ==
  { "SpirvLowerAccessChain", "SpirvLowerConstImmediateStore",
    "SpirvLowerMathConstFolding", "SpirvLowerMathFloatOp", "SpirvLowerMemoryOp",
    "SpirvLowerGlobal", "SpirvLowerInstMetaRemove", "SpirvLowerResourceCollect",
    "SpirvLowerTerminator", "LegacySpirvLowerTranslator" }

PassListInputs == UNION {[1 .. n -> LowerPasses] : n \in 0 .. MaxPasses}

VARIABLES
  passes,     \* the ordered pass list of the run
  executed,   \* positions of the list whose pass has been run, in run order
  module,     \* the passes that have rewritten the module, in order
  runStatus,  \* "idle", "running", "ok" or "failed"
  runError    \* the failure surfaced to the caller

runVars == << passes, executed, module, runStatus, runError >>

NoError == [pass |-> NoValue, position |-> 0]

RunInit ==
  /\ passes = << >>
  /\ executed = << >>
  /\ module = << >>
  /\ runStatus = "idle"
  /\ runError = NoError

\* addPasses: the pass list is built and the run begins; an empty list is a
\* finished, successful run.
AddPasses ==
  /\ runStatus = "idle"
  /\ \E list \in PassListInputs :
       /\ passes' = list
       /\ runStatus' = IF Len(list) = 0 THEN "ok" ELSE "running"
  /\ UNCHANGED << executed, module, runError >>

\* What running the pass at position i does to the run, given whether the
\* pass succeeds.
RunPassResult_continuesAfterFailure(i, ok) ==
  [ status |-> IF i = Len(passes) THEN (IF ok THEN "ok" ELSE "failed") ELSE "running",
    error |-> IF ok THEN runError ELSE [pass |-> passes[i], position |-> i] ]

RunPassResult(i, ok) ==
  [ status |-> IF ~ok THEN "failed" ELSE IF i = Len(passes) THEN "ok" ELSE "running",
    error |-> IF ok THEN runError ELSE [pass |-> passes[i], position |-> i] ]

\* The next pass of the list runs on the module the previous one left.  A
\* pass that succeeds has rewritten the module (or done nothing); one that
\* fails leaves it as far as it got.
RunPass(ok, rewrote) ==
  /\ runStatus = "running"
  /\ LET i == Len(executed) + 1
     IN /\ executed' = Append(executed, i)
        /\ module' = IF rewrote THEN Append(module, passes[i]) ELSE module
        /\ runStatus' = RunPassResult(i, ok).status
        /\ runError' = RunPassResult(i, ok).error
  /\ UNCHANGED passes

\* ------------------------------------------------------------------------
\* Pass registry: registration of pass identities with their dependencies,
\* and resolution of a run order.

MaxRegistered == 3
MaxDeps == 2

\* Passes other than the lowering passes that a process registers.
OtherPasses == {"PassA", "PassB", "PassC"}

DepsInputs == {d \in SUBSET OtherPasses : Cardinality(d) <= MaxDeps}
RequestInputs ==
  ((SUBSET OtherPasses) \ {{}}) \cup {LowerPasses, LowerPasses \cup OtherPasses}

Identities(reg) == {reg[i].identity : i \in 1 .. Len(reg)}

\* Position at which the identity was registered.
RegIndex(reg, id) == CHOOSE i \in 1 .. Len(reg) : reg[i].identity = id

DepsOf(reg, id) == reg[RegIndex(reg, id)].dependencies

\* register(identity, dependencies, factory)
register_overwrites(reg, id, deps) ==
  [ registry |-> Append(reg, [identity |-> id, dependencies |-> deps]),
    error |-> NoValue ]

register(reg, id, deps) ==
  IF id \in Identities(reg)
  THEN [registry |-> reg, error |-> "DuplicateRegistration"]
  ELSE [ registry |-> Append(reg, [identity |-> id, dependencies |-> deps]),
         error |-> NoValue ]

\* The calls of initializeLowerPasses, one after the other; the first error
\* is kept.
RECURSIVE RegisterAll(_, _, _)
RegisterAll(reg, ids, err) ==
  IF ids = << >> THEN [registry |-> reg, error |-> err]
  ELSE LET r == register(reg, Head(ids), {})
       IN RegisterAll(r.registry, Tail(ids), IF err = NoValue THEN r.error ELSE err)

\* The requested passes with all their transitive dependencies.
RECURSIVE TransitiveDeps(_, _)
TransitiveDeps(reg, ids) ==
  LET more == ids \cup UNION {DepsOf(reg, id) : id \in ids \cap Identities(reg)}
  IN IF more = ids THEN ids ELSE TransitiveDeps(reg, more)

\* Passes are placed one at a time: among the passes whose dependencies are
\* all placed, the one registered first.
RECURSIVE Place(_, _, _)
Place(reg, placed, remaining) ==
  IF remaining = {} THEN [order |-> placed, error |-> NoValue]
  ELSE LET done == {placed[i] : i \in 1 .. Len(placed)}
           ready == {id \in remaining : DepsOf(reg, id) \subseteq done}
       IN IF ready = {} THEN [order |-> << >>, error |-> "CyclicDependency"]
          ELSE LET i == CHOOSE i \in 1 .. Len(reg) :
                             /\ reg[i].identity \in ready
                             /\ \A j \in 1 .. i - 1 : reg[j].identity \notin ready
                   first == reg[i].identity
               IN Place(reg, Append(placed, first), remaining \ {first})

RECURSIVE Place_lastRegisteredFirst(_, _, _)
Place_lastRegisteredFirst(reg, placed, remaining) ==
  IF remaining = {} THEN [order |-> placed, error |-> NoValue]
  ELSE LET done == {placed[i] : i \in 1 .. Len(placed)}
           ready == {id \in remaining : DepsOf(reg, id) \subseteq done}
       IN IF ready = {} THEN [order |-> << >>, error |-> "CyclicDependency"]
          ELSE LET i == CHOOSE i \in 1 .. Len(reg) :
                             /\ reg[i].identity \in ready
                             /\ \A j \in i + 1 .. Len(reg) : reg[j].identity \notin ready
                   first == reg[i].identity
               IN Place_lastRegisteredFirst(reg, Append(placed, first), remaining \ {first})

\* resolveOrder(requestedIdentities)
resolveOrder(reg, requestedIds) ==
  LET all == TransitiveDeps(reg, requestedIds)
  IN IF ~(all \subseteq Identities(reg))
     THEN [order |-> << >>, error |-> "UnknownPass"]
     ELSE Place(reg, << >>, all)

VARIABLES
  registry,      \* the registered passes, in registration order
  regCall,       \* the registration call made last
  regError,      \* the error it returned, if any
  initialized,   \* whether initializeLowerPasses has run
  frozen,        \* whether an order has been resolved from the registry
  requested,     \* the identities last asked of resolveOrder
  order,         \* the order it returned
  resolveError   \* the error it returned, if any

regVars == << registry, regCall, regError, initialized, frozen, requested, order, resolveError >>

RegInit ==
  /\ registry = << >>
  /\ regCall = NoValue
  /\ regError = NoValue
  /\ initialized = FALSE
  /\ frozen = FALSE
  /\ requested = {}
  /\ order = << >>
  /\ resolveError = NoValue

Register(id, deps) ==
  /\ ~frozen
  /\ Cardinality(Identities(registry) \cap OtherPasses) < MaxRegistered
  /\ LET r == register(registry, id, deps)
     IN /\ registry' = r.registry
        /\ regError' = r.error
  /\ regCall' = "register"
  /\ UNCHANGED << initialized, frozen, requested, order, resolveError >>

\* initializeLowerPasses(passRegistry), called once at start-up.
InitializeLowerPasses ==
  /\ ~frozen
  /\ ~initialized
  /\ LET r == RegisterAll(registry, initializeLowerPasses, NoValue)
     IN /\ registry' = r.registry
        /\ regError' = r.error
  /\ regCall' = "initializeLowerPasses"
  /\ initialized' = TRUE
  /\ UNCHANGED << frozen, requested, order, resolveError >>

\* resolveOrder only reads the registry: one resolution per behaviour shows
\* what any later one with the same request returns.
ResolveOrder(requestedIds) ==
  /\ ~frozen
  /\ requested' = requestedIds
  /\ LET r == resolveOrder(registry, requestedIds)
     IN /\ order' = r.order
        /\ resolveError' = r.error
  /\ frozen' = TRUE
  /\ UNCHANGED << registry, regCall, regError, initialized >>

\* ------------------------------------------------------------------------
\* Specifications.

vars == << utilVars, runVars, regVars >>

Init == UtilInit /\ RunInit /\ RegInit

\* The utility functions, called with any arguments in any order.
Next ==
  \/ \E s \in StageInputs : GetShaderStageName(s) /\ UNCHANGED << runVars, regVars >>
  \/ \E x \in ExecModelInputs : ConvertToShaderStage(x) /\ UNCHANGED << runVars, regVars >>
  \/ \E s \in StageInputs : ConvertToExecModel(s) /\ UNCHANGED << runVars, regVars >>
  \/ ConvertBackToExecModel /\ UNCHANGED << runVars, regVars >>
  \/ ConvertBackToShaderStage /\ UNCHANGED << runVars, regVars >>
  \/ \E s \in StageInputs : ShaderStageToMask(s) /\ UNCHANGED << runVars, regVars >>
  \/ \E t \in TypeInputs : \E infos \in ShaderInfoInputs :
       HasDataForUnlinkedShaderType(t, infos) /\ UNCHANGED << runVars, regVars >>
  \/ \E t \in TypeInputs : GetShaderStageMaskForType(t) /\ UNCHANGED << runVars, regVars >>
  \/ \E t \in TypeInputs : GetUnlinkedShaderStageName(t) /\ UNCHANGED << runVars, regVars >>

Spec == Init /\ [][Next]_vars

\* The run of one pass list.
RunnerNext ==
  \/ AddPasses /\ UNCHANGED << utilVars, regVars >>
  \/ \E ok \in BOOLEAN : \E rewrote \in BOOLEAN :
       RunPass(ok, rewrote) /\ UNCHANGED << utilVars, regVars >>

SpecRun == Init /\ [][RunnerNext]_vars

\* Registration at start-up, then resolution of run orders.
RegistryNext ==
  \/ \E id \in OtherPasses : \E deps \in DepsInputs :
       Register(id, deps) /\ UNCHANGED << utilVars, runVars >>
  \/ InitializeLowerPasses /\ UNCHANGED << utilVars, runVars >>
  \/ \E requestedIds \in RequestInputs :
       ResolveOrder(requestedIds) /\ UNCHANGED << utilVars, runVars >>

SpecReg == Init /\ [][RegistryNext]_vars

\* ------------------------------------------------------------------------
\* Properties of the utility functions (checked under Spec).

NativeStages ==
  { ShaderStageVertex, ShaderStageTessControl, ShaderStageTessEval,
    ShaderStageGeometry, ShaderStageFragment, ShaderStageCompute }

DefinedStages == NativeStages \cup {ShaderStageCopyShader}

DefinedExecModels ==
  { ExecutionModelVertex, ExecutionModelTessellationControl,
    ExecutionModelTessellationEvaluation, ExecutionModelGeometry,
    ExecutionModelFragment, ExecutionModelGLCompute, ExecutionModelCopyShader }

ReturnedNormally == returned /\ fault = NoValue

\* C1: convertToExecModel and convertToShaderStage are mutual inverses on
\* their defined domains: converting a defined execution model to a stage and
\* back gives the execution model, converting a defined stage to an execution
\* model and back gives the stage, and only CopyShader converts to the
\* CopyShader execution model.
C1_MutualInverses ==
  /\ call = "convertToExecModel" =>
       /\ \A x \in from : x \in DefinedExecModels => ReturnedNormally /\ ret = x
       /\ (ReturnedNormally /\ ret = ExecutionModelCopyShader) => stage = ShaderStageCopyShader
  /\ call = "convertToShaderStage" =>
       \A s \in from : s \in DefinedStages => ReturnedNormally /\ ret = s

C1_Witness ==
  /\ call = "convertToExecModel"
  /\ from = {ExecutionModelCopyShader}
  /\ stage = ShaderStageCopyShader
  /\ ReturnedNormally
  /\ ret = ExecutionModelCopyShader

\* The single-bit masks, by ordinal.
SingleBit == << 1, 2, 4, 8, 16, 32, 64 >>

\* C2: shaderStageToMask(stage) is the single bit 1 << ordinal(stage); over
\* Vertex..Compute and CopyShader no two stages have the same mask, and
\* CopyShader's mask shares no bit with the mask of a stage in Vertex..Compute.
C2_MaskInjective ==
  (call = "shaderStageToMask" /\ stage \in DefinedStages) =>
    /\ ReturnedNormally
    /\ ret = SingleBit[stage + 1]
    /\ \A other \in DefinedStages \ {stage} : shaderStageToMask(other).value # ret
    /\ stage = ShaderStageCopyShader =>
         \A native \in NativeStages : BitAnd(ret, shaderStageToMask(native).value) = 0

C2_Witness ==
  /\ call = "shaderStageToMask"
  /\ stage = ShaderStageCopyShader
  /\ ReturnedNormally
  /\ ret = SingleBit[ShaderStageCopyShader + 1]

\* C3: getShaderStageName returns "copy" for CopyShader, the fixed name of
\* each of Vertex..Compute, and "bad" for every other stage value.
C3_StageName ==
  call = "getShaderStageName" =>
    /\ ReturnedNormally
    /\ ret = CASE stage = ShaderStageCopyShader -> "copy"
               [] stage = ShaderStageVertex -> "vertex"
               [] stage = ShaderStageTessControl -> "tessellation control"
               [] stage = ShaderStageTessEval -> "tessellation evaluation"
               [] stage = ShaderStageGeometry -> "geometry"
               [] stage = ShaderStageFragment -> "fragment"
               [] stage = ShaderStageCompute -> "compute"
               [] OTHER -> "bad"

C3_Witness ==
  /\ call = "getShaderStageName"
  /\ stage = ShaderStageCopyShader
  /\ ret = "copy"

\* C4: hasDataForUnlinkedShaderType(VertexProcess, shaderInfos) is true iff
\* an element of shaderInfos declares stage Vertex (TessControl, TessEval and
\* Geometry elements do not count; an empty list gives false); Fragment and
\* Compute are true iff a Fragment / Compute element exists; any other
\* category gives false.
C4_HasData ==
  call = "hasDataForUnlinkedShaderType" =>
    /\ ReturnedNormally
    /\ ret = \/ /\ type = UnlinkedStageVertexProcess
                /\ \E i \in 1 .. Len(shaderInfo) : shaderInfo[i] = ShaderStageVertex
             \/ /\ type = UnlinkedStageFragment
                /\ \E i \in 1 .. Len(shaderInfo) : shaderInfo[i] = ShaderStageFragment
             \/ /\ type = UnlinkedStageCompute
                /\ \E i \in 1 .. Len(shaderInfo) : shaderInfo[i] = ShaderStageCompute

C4_Witness ==
  /\ call = "hasDataForUnlinkedShaderType"
  /\ type = UnlinkedStageVertexProcess
  /\ shaderInfo = << ShaderStageTessControl, ShaderStageGeometry >>
  /\ ret = FALSE

\* The stages a category expands to.
CategoryStages(t) ==
  CASE t = UnlinkedStageVertexProcess ->
         {ShaderStageVertex, ShaderStageTessControl, ShaderStageTessEval, ShaderStageGeometry}
    [] t = UnlinkedStageFragment -> {ShaderStageFragment}
    [] t = UnlinkedStageCompute -> {ShaderStageCompute}
    [] OTHER -> {}

RECURSIVE SumOfBits(_)
SumOfBits(stages) ==
  IF stages = {} THEN 0
  ELSE LET s == CHOOSE s \in stages : TRUE
       IN SingleBit[s + 1] + SumOfBits(stages \ {s})

\* C5: getShaderStageMaskForType(category) is the OR of the masks of exactly
\* the stages the category expands to; a stage belongs to the category iff
\* its mask ANDed with the category mask is not 0; a value outside the
\* closed set of categories gives mask 0.
C5_MaskForType ==
  call = "getShaderStageMaskForType" =>
    /\ ReturnedNormally
    /\ ret = SumOfBits(CategoryStages(type))
    /\ \A s \in DefinedStages :
         (s \in CategoryStages(type)) <=> (BitAnd(ret, SingleBit[s + 1]) # 0)
    /\ type \notin {UnlinkedStageVertexProcess, UnlinkedStageFragment, UnlinkedStageCompute}
         => ret = 0

C5_Witness ==
  /\ call = "getShaderStageMaskForType"
  /\ type = UnlinkedStageVertexProcess
  /\ ret = SumOfBits({ShaderStageVertex, ShaderStageTessControl,
                      ShaderStageTessEval, ShaderStageGeometry})

\* C6 as stated: the name function and both conversions are total, none of
\* them ever reaches llvm_unreachable or a failed assertion.
C6_Total ==
  call \in {"getShaderStageName", "convertToShaderStage", "convertToExecModel"} =>
    ReturnedNormally

\* C6, amended: getShaderStageName returns a name for every stage value;
\* convertToShaderStage returns normally exactly for the execution models
\* Vertex..GLCompute and CopyShader, convertToExecModel exactly for the
\* stages Vertex..Compute and CopyShader, and on every other value each of
\* them reaches llvm_unreachable.
C6_TotalOnDomain ==
  /\ call = "getShaderStageName" => ReturnedNormally
  /\ call = "convertToShaderStage" =>
       /\ ReturnedNormally <=> execModel \in DefinedExecModels
       /\ ~ReturnedNormally => fault = "llvm_unreachable"
  /\ call = "convertToExecModel" =>
       /\ ReturnedNormally <=> stage \in DefinedStages
       /\ ~ReturnedNormally => fault = "llvm_unreachable"

C6_Witness ==
  /\ call = "convertToExecModel"
  /\ stage = ShaderStageInvalid
  /\ fault = "llvm_unreachable"

\* The half of C9 that is about getShaderStageName: ShaderStageNames is read
\* only at 0..5, and not at all for CopyShader, Invalid or any other stage
\* value outside Vertex..Compute.
StageNameIndexInRange ==
  call = "getShaderStageName" =>
    /\ tableReads \subseteq 0 .. Len(ShaderStageNames) - 1
    /\ stage \notin NativeStages => tableReads = {}
    /\ stage \in NativeStages => tableReads = {stage}

\* C9: the name tables are never read past their end: getShaderStageName
\* reads ShaderStageNames only at 0..5, and not at all for CopyShader and
\* Invalid; getUnlinkedShaderStageName reads names only at 0..3, whatever
\* category value it is passed.
C9_TableIndexInRange ==
  /\ StageNameIndexInRange
  /\ call = "getUnlinkedShaderStageName" =>
       /\ tableReads # {}
       /\ tableReads \subseteq 0 .. Len(names) - 1

Categories == {UnlinkedStageVertexProcess, UnlinkedStageFragment, UnlinkedStageCompute}

\* C10: the category masks partition the native stages: the mask of a
\* category shares no bit with the mask of another category nor with
\* CopyShader's, and the three masks together are the masks of exactly
\* Vertex..Compute.
C10_CategoriesPartition ==
  (call = "getShaderStageMaskForType" /\ type \in Categories) =>
    /\ \A other \in Categories \ {type} :
         BitAnd(ret, getShaderStageMaskForType(other)) = 0
    /\ BitAnd(ret, shaderStageToMask(ShaderStageCopyShader).value) = 0
    /\ LET mask(t) == IF t = type THEN ret ELSE getShaderStageMaskForType(t)
       IN BitOr(BitOr(mask(UnlinkedStageVertexProcess), mask(UnlinkedStageFragment)),
                mask(UnlinkedStageCompute)) = SumOfBits(NativeStages)

C10_Witness ==
  /\ call = "getShaderStageMaskForType"
  /\ type = UnlinkedStageFragment
  /\ ret = SingleBit[ShaderStageFragment + 1]

\* ------------------------------------------------------------------------
\* Properties of the pass run (checked under SpecRun).

\* Passes run strictly in list order; when the pass at position i fails
\* the run stops there: no later position runs, none is run again, the
\* module is not rolled back, and the error names the pass at position i.
C7_InOrderStopAtFailure ==
  /\ Len(executed) <= Len(passes)
  /\ \A k \in 1 .. Len(executed) : executed[k] = k
  /\ runStatus = "failed" <=> runError.position # 0
  /\ runError.position # 0 =>
       /\ Len(executed) = runError.position
       /\ runError.pass = passes[runError.position]
  /\ runStatus = "ok" => Len(executed) = Len(passes)

C7_NoRollback ==
  [][ /\ Len(module') >= Len(module)
      /\ SubSeq(module', 1, Len(module)) = module
      /\ runError.position # 0 => UNCHANGED << executed, runError, runStatus >> ]_vars

\* C7: in every behaviour of a run the passes run in list order, the run
\* stops at the first failure with the error naming the failed pass, and the
\* module is never rolled back.
C7_FailStops == []C7_InOrderStopAtFailure /\ C7_NoRollback

C7_Witness ==
  /\ runStatus = "failed"
  /\ Len(passes) = MaxPasses
  /\ runError.position = 1
  /\ executed = << 1 >>

\* ------------------------------------------------------------------------
\* Properties of the registry (checked under SpecReg).

Before(seq, i) == {seq[k] : k \in 1 .. i - 1}

\* C8: an order resolved from an acyclic registration has every pass after
\* all of its dependencies, with a pass registered earlier placed first
\* unless a dependency of it was still missing; and initializeLowerPasses
\* registers each lowering pass exactly once, without DuplicateRegistration.
C8_OrderRespectsDependencies ==
  /\ (frozen /\ resolveError = NoValue) =>
       /\ requested \subseteq {order[i] : i \in 1 .. Len(order)}
       /\ \A i \in 1 .. Len(order) :
            /\ order[i] \in Identities(registry)
            /\ order[i] \notin Before(order, i)
            /\ DepsOf(registry, order[i]) \subseteq Before(order, i)
       /\ \A i \in 1 .. Len(order) : \A j \in i + 1 .. Len(order) :
            RegIndex(registry, order[j]) < RegIndex(registry, order[i]) =>
              ~(DepsOf(registry, order[j]) \subseteq Before(order, i))
  /\ regCall = "initializeLowerPasses" => regError = NoValue
  /\ initialized =>
       \A id \in LowerPasses :
         Cardinality({i \in 1 .. Len(registry) : registry[i].identity = id}) = 1

C8_Witness ==
  /\ frozen
  /\ resolveError = NoValue
  /\ initialized
  /\ Len(registry) = Len(initializeLowerPasses) + 3
  /\ registry[1].identity = "PassA"
  /\ order = << "PassC", "PassB", "PassA" >>

====
